---- MODULE Spec2Model ----
(***************************************************************************)
(* Model of challenge_scoring/metrics/scoring.py (scilus/tractometer       *)
(* scorer): _prepare_gt_bundles_info and score_submission.                 *)
(*                                                                         *)
(* A streamline is carried by the one geometric quantity scoring.py reads  *)
(* itself, its length (slength).  What the collaborators compute from the  *)
(* geometry (auto_extract_VCs: the bundle a streamline matches;            *)
(* group_and_assign_ibs: the pair of endpoint ROIs) is drawn when the      *)
(* collaborator is called.  Streamline indices are 0..N-1 as in the code.  *)
(* Fractions are kept exact as [num, den].                                 *)
(***************************************************************************)
EXTENDS Integers, Sequences, FiniteSets

\* ------------------------------------------------------------------ bounds
MaxN == 3
MaxScenarioN == 5

\* ------------------------------------------------------- program constants
length_thres == 35
SCHEMA_VERSION == 2
ALGO_VERSION == 5

\* ----------------------------------------------------------- input domains
\* os.listdir(bundles_dir), sorted (scoring.py:36); names are the file stems.
BundleFiles == <<"CST_L", "CST_R">>
BundleNames == {BundleFiles[k] : k \in 1..Len(BundleFiles)}
\* Streamline lengths around the threshold: below, exactly at, above.
Lengths == {34, 35, 36}
ScenarioLengths == {34, 35}
\* Endpoint-ROI pairs the grouper can find; NoROI: an endpoint touches no ROI.
RoiPairs == {"R1_R2", "R1_R3"}
NoROI == "none"
NoBundle == "none"

NoError == [type |-> "", msg |-> ""]

VARIABLES
    basic_bundles_attribs,      \* bundle files that have an attribs entry
    save_full_vc, save_full_ic, save_full_nc, save_IBs, save_VBs,
    streamlines_file,           \* the submission on disk: index -> length
    pc,                         \* stage about to run, or DONE / ERROR
    ref_bundles,                \* names of the loaded reference bundles
    full_strl,                  \* tractogram.streamlines: index -> length
    VC_indices,
    found_vbs_info,
    candidate_ic_strl_indices,
    candidate_ic_indices,
    rejected_indices,
    endpoint_rois,              \* grouper: candidate index -> ROI pair / NoROI
    ib_indices,                 \* grouper: indices it placed in an IB
    grouper_calls,              \* calls of group_and_assign_ibs so far
    ic_counts,
    nb_ib,
    written,                    \* tags of the subset files written so far
    scores,                     \* <<>> until returned, then <<scorecard>>
    err

flags == <<save_full_vc, save_full_ic, save_full_nc, save_IBs, save_VBs>>
inputs == <<basic_bundles_attribs, flags, streamlines_file>>
vars == <<inputs, pc, ref_bundles, full_strl, VC_indices, found_vbs_info,
          candidate_ic_strl_indices, candidate_ic_indices, rejected_indices,
          endpoint_rois, ib_indices, grouper_calls, ic_counts, nb_ib, written,
          scores, err>>

\* ----------------------------------------------------------------- helpers
Range(s) == {s[k] : k \in 1..Len(s)}

RECURSIVE sorted(_)
sorted(S) ==
    IF S = {} THEN <<>>
    ELSE LET m == CHOOSE x \in S : \A y \in S : x <= y
         IN <<m>> \o sorted(S \ {m})

RECURSIVE SumOver(_, _)
SumOver(f, S) ==
    IF S = {} THEN 0
    ELSE LET x == CHOOSE y \in S : TRUE IN f[x] + SumOver(f, S \ {x})

\* dipy.tracking.metrics.length of a streamline, the streamline being its length
slength(s) == s

\* ------------------------------------------------ Ground-Truth Loader
MissingAttribs == [type |-> "ValueError", msg |-> "Missing basic bundle attribs"]
PartitionError ==
    [type |-> "ValueError",
     msg |-> "Some streamlines were not correctly assigned to NC"]
DivisionError == [type |-> "ZeroDivisionError", msg |-> "division by zero"]

\* Mutant: the attribs entry is not looked up.
HasAttribs_unchecked(gt_bundles_attribs, bundle_f) == TRUE

\* gt_bundles_attribs.get(os.path.basename(bundle_f)) is not None
HasAttribs(gt_bundles_attribs, bundle_f) == bundle_f \in gt_bundles_attribs

\* The loop over sorted(os.listdir(bundles_dir)): the first file without an
\* attribs entry raises; otherwise one reference bundle per file, in order.
prepare_gt_bundles_info(bundle_files, gt_bundles_attribs) ==
    LET missing == {k \in 1..Len(bundle_files) :
                        ~HasAttribs(gt_bundles_attribs, bundle_files[k])}
    IN  IF missing # {}
        THEN [raised |-> TRUE, error |-> MissingAttribs, ref_bundles |-> <<>>]
        ELSE [raised |-> FALSE, error |-> NoError, ref_bundles |-> bundle_files]

\* ------------------------------------------- Valid-Connection Extractor
\* Per-bundle voxel metrics: geometry the model does not carry.  A bundle
\* with streamlines gets stand-in values, a bundle with none gets zeros.
VoxelMetrics(nb) ==
    IF nb > 0
    THEN [overlap |-> 80, overreach |-> 20, overreach_norm |-> 10, f1_score |-> 80]
    ELSE [overlap |-> 0, overreach |-> 0, overreach_norm |-> 0, f1_score |-> 0]

\* match: index -> the reference bundle the streamline is assigned to, or
\* NoBundle.  One FoundBundleInfo record per reference bundle.
auto_extract_VCs(match, bundles) ==
    LET assigned(b) == {i \in DOMAIN match : match[i] = b}
    IN  [VC_indices |-> {i \in DOMAIN match : match[i] # NoBundle},
         found_vbs_info |->
            [b \in Range(bundles) |->
                [nb_streamlines |-> Cardinality(assigned(b)),
                 streamlines_indices |-> assigned(b),
                 overlap |-> VoxelMetrics(Cardinality(assigned(b))).overlap,
                 overreach |-> VoxelMetrics(Cardinality(assigned(b))).overreach,
                 overreach_norm |->
                    VoxelMetrics(Cardinality(assigned(b))).overreach_norm,
                 f1_score |-> VoxelMetrics(Cardinality(assigned(b))).f1_score]]]

\* save_valid_connections(..., save_vbs=save_VBs, save_full_vc=save_full_vc)
save_valid_connections(vbs, full_vc) ==
    (IF vbs THEN {"VB"} ELSE {}) \cup (IF full_vc THEN {"VC"} ELSE {})

\* ------------------------------------------- Invalid-Connection Grouper
\* rois: candidate index -> endpoint-ROI pair or NoROI.  Groups of two or
\* more become Invalid Bundles, singletons are rejected.  What happens to a
\* candidate with an endpoint in no ROI is left open: it is either rejected
\* (drop_unassigned = FALSE) or left out of both results (TRUE).
group_and_assign_ibs(rois, drop_unassigned, ibs_flag, full_ic_flag) ==
    LET group(p) == {i \in DOMAIN rois : rois[i] = p}
        bundles == {p \in RoiPairs : Cardinality(group(p)) >= 2}
        grouped == UNION {group(p) : p \in bundles}
        singletons == UNION {group(p) : p \in RoiPairs \ bundles}
        unassigned == {i \in DOMAIN rois : rois[i] = NoROI}
    IN  [rejected |-> sorted(singletons \cup
                             (IF drop_unassigned THEN {} ELSE unassigned)),
         ic_counts |-> Cardinality(grouped),
         nb_ib |-> Cardinality(bundles),
         ib_indices |-> grouped,
         written |->
            (IF ibs_flag /\ bundles # {} THEN {"IB"} ELSE {}) \cup
            (IF full_ic_flag /\ grouped # {} THEN {"IC"} ELSE {})]

\* ------------------------------------------------ Scoring Orchestrator
total_strl_count == Cardinality(DOMAIN full_strl)

\* Mutant: the VC indices are not taken out.
NonVCIndices_all(n, vc) == sorted(0..(n - 1))

\* sorted(set(range(total_strl_count)) - VC_indices)
NonVCIndices(n, vc) == sorted((0..(n - 1)) \ vc)

\* Mutant: a strict comparison.
LongEnough_strict(s) == slength(s) > length_thres

\* slength(full_strl[idx]) >= length_thres
LongEnough(s) == slength(s) >= length_thres

\* The filter loop: candidates keep the order of the indices, so do rejects.
FilterLength(indices, strl) ==
    LET keep(idx) == LongEnough(strl[idx])
        drop(idx) == ~LongEnough(strl[idx])
    IN  [candidate_ic_indices |-> SelectSeq(indices, keep),
         rejected_indices |-> SelectSeq(indices, drop)]

\* Mutant: the grouper is called whatever the candidates.
HasCandidates_always(candidates) == TRUE

\* if len(candidate_ic_indices):
HasCandidates(candidates) == Len(candidates) > 0

\* Mutant: the grouper's rejects are not appended.
ExtendRejected_lost(rejected, additional) == rejected

\* rejected_indices.extend(additional_rejected_indices)
ExtendRejected(rejected, additional) == rejected \o additional

\* Mutant: the check never fails.
PartitionOK_always(ic, nb_non_vc, nb_rejected) == TRUE

\* not (ic_counts != len(candidate_ic_strl_indices) - len(rejected_indices))
PartitionOK(ic, nb_non_vc, nb_rejected) == ic = nb_non_vc - nb_rejected

\* len(rejected_indices) > 0 and save_full_nc
SavesNC(rejected, full_nc) == Len(rejected) > 0 /\ full_nc

Frac(n, d) == [num |-> n, den |-> d]

\* np.mean(list(mapping.values())), kept as sum and count
Mean(mapping) ==
    [sum |-> SumOver(mapping, DOMAIN mapping), n |-> Cardinality(DOMAIN mapping)]

\* Keys of a per-bundle metric mapping: {k: v[...] for k, v in info.items()}
MetricKeys(info) == DOMAIN info

\* Mutant: the > 0 filter is missing.
FoundKeys_all(info) == DOMAIN info

\* Keys of streamlines_per_bundle: ... if v['nb_streamlines'] > 0
FoundKeys(info) == {k \in DOMAIN info : info[k].nb_streamlines > 0}

Scorecard(total, vc, nb_non_vc, nb_rejected, ib, info) ==
    LET overlap == [k \in MetricKeys(info) |-> info[k].overlap]
        overreach == [k \in MetricKeys(info) |-> info[k].overreach]
        overreach_norm == [k \in MetricKeys(info) |-> info[k].overreach_norm]
        f1 == [k \in MetricKeys(info) |-> info[k].f1_score]
    IN  [version |-> SCHEMA_VERSION,
         algo_version |-> ALGO_VERSION,
         VC |-> Frac(vc, total),
         IC |-> Frac(nb_non_vc - nb_rejected, total),
         VCWP |-> 0,
         NC |-> Frac(nb_rejected, total),
         VB |-> Cardinality(FoundKeys(info)),
         IB |-> ib,
         streamlines_per_bundle |->
            [k \in FoundKeys(info) |-> info[k].nb_streamlines],
         total_streamlines_count |-> total,
         overlap_per_bundle |-> overlap,
         overreach_per_bundle |-> overreach,
         overreach_norm_gt_per_bundle |-> overreach_norm,
         f1_score_per_bundle |-> f1,
         mean_OL |-> Mean(overlap),
         mean_OR |-> Mean(overreach),
         mean_ORn |-> Mean(overreach_norm),
         mean_F1 |-> Mean(f1)]

\* ------------------------------------------------------------------- Init
Submissions(maxn, lens) == UNION {[0..(n - 1) -> lens] : n \in 0..maxn}

InitWith(files, flagvalues) ==
    /\ basic_bundles_attribs \in SUBSET BundleNames
    /\ save_full_vc \in flagvalues
    /\ save_full_ic \in flagvalues
    /\ save_full_nc \in flagvalues
    /\ save_IBs \in flagvalues
    /\ save_VBs \in flagvalues
    /\ streamlines_file \in files
    /\ pc = "LOAD_GT"
    /\ ref_bundles = <<>>
    /\ full_strl = <<>>
    /\ VC_indices = {}
    /\ found_vbs_info = <<>>
    /\ candidate_ic_strl_indices = <<>>
    /\ candidate_ic_indices = <<>>
    /\ rejected_indices = <<>>
    /\ endpoint_rois = <<>>
    /\ ib_indices = {}
    /\ grouper_calls = 0
    /\ ic_counts = 0
    /\ nb_ib = 0
    /\ written = {}
    /\ scores = <<>>
    /\ err = NoError

Init == InitWith(Submissions(MaxN, Lengths), BOOLEAN)

InitScenario == InitWith(Submissions(MaxScenarioN, ScenarioLengths), {FALSE})

\* ---------------------------------------------------------------- actions
\* scoring.py:133-147: ROIs and reference bundles; a missing attribs entry
\* raises out of score_submission.
LoadGT ==
    /\ pc = "LOAD_GT"
    /\ LET r == prepare_gt_bundles_info(BundleFiles, basic_bundles_attribs)
       IN  /\ ref_bundles' = r.ref_bundles
           /\ err' = r.error
           /\ pc' = IF r.raised THEN "ERROR" ELSE "LOAD_SUBMISSION"
    /\ UNCHANGED <<inputs, full_strl, VC_indices, found_vbs_info,
                   candidate_ic_strl_indices, candidate_ic_indices,
                   rejected_indices, endpoint_rois, ib_indices, grouper_calls,
                   ic_counts, nb_ib, written, scores>>

\* scoring.py:149-153
LoadSubmission ==
    /\ pc = "LOAD_SUBMISSION"
    /\ full_strl' = streamlines_file
    /\ pc' = "EXTRACT_VC"
    /\ UNCHANGED <<inputs, ref_bundles, VC_indices, found_vbs_info,
                   candidate_ic_strl_indices, candidate_ic_indices,
                   rejected_indices, endpoint_rois, ib_indices, grouper_calls,
                   ic_counts, nb_ib, written, scores, err>>

\* scoring.py:155-163: extraction, then the VB / full-VC files if asked for.
ExtractVC ==
    /\ pc = "EXTRACT_VC"
    /\ \E match \in [DOMAIN full_strl -> Range(ref_bundles) \cup {NoBundle}] :
         LET r == auto_extract_VCs(match, ref_bundles)
         IN  /\ VC_indices' = r.VC_indices
             /\ found_vbs_info' = r.found_vbs_info
    /\ written' = IF save_VBs \/ save_full_vc
                  THEN written \cup save_valid_connections(save_VBs, save_full_vc)
                  ELSE written
    /\ pc' = "FILTER_LENGTH"
    /\ UNCHANGED <<inputs, ref_bundles, full_strl, candidate_ic_strl_indices,
                   candidate_ic_indices, rejected_indices, endpoint_rois,
                   ib_indices, grouper_calls, ic_counts, nb_ib, scores, err>>

\* scoring.py:167-187
FilterLengthStep ==
    /\ pc = "FILTER_LENGTH"
    /\ LET non_vc == NonVCIndices(total_strl_count, VC_indices)
           r == FilterLength(non_vc, full_strl)
       IN  /\ candidate_ic_strl_indices' = non_vc
           /\ candidate_ic_indices' = r.candidate_ic_indices
           /\ rejected_indices' = r.rejected_indices
    /\ pc' = "GROUP_IC"
    /\ UNCHANGED <<inputs, ref_bundles, full_strl, VC_indices, found_vbs_info,
                   endpoint_rois, ib_indices, grouper_calls, ic_counts, nb_ib,
                   written, scores, err>>

\* scoring.py:189-201: the grouper runs only when there are candidates.
GroupIC ==
    /\ pc = "GROUP_IC"
    /\ IF HasCandidates(candidate_ic_indices)
       THEN \E rois \in [Range(candidate_ic_indices) -> RoiPairs \cup {NoROI}],
               drop_unassigned \in BOOLEAN :
              LET r == group_and_assign_ibs(rois, drop_unassigned,
                                            save_IBs, save_full_ic)
              IN  /\ grouper_calls' = grouper_calls + 1
                  /\ endpoint_rois' = rois
                  /\ ib_indices' = r.ib_indices
                  /\ ic_counts' = r.ic_counts
                  /\ nb_ib' = r.nb_ib
                  /\ written' = written \cup r.written
                  /\ rejected_indices' =
                        ExtendRejected(rejected_indices, r.rejected)
       ELSE /\ ic_counts' = 0
            /\ nb_ib' = 0
            /\ UNCHANGED <<endpoint_rois, ib_indices, grouper_calls, written,
                           rejected_indices>>
    /\ pc' = "VALIDATE_PARTITION"
    /\ UNCHANGED <<inputs, ref_bundles, full_strl, VC_indices, found_vbs_info,
                   candidate_ic_strl_indices, candidate_ic_indices, scores, err>>

\* scoring.py:203-215: the consistency check, then the NC file if asked for.
ValidatePartition ==
    /\ pc = "VALIDATE_PARTITION"
    /\ IF PartitionOK(ic_counts, Len(candidate_ic_strl_indices),
                      Len(rejected_indices))
       THEN /\ written' = IF SavesNC(rejected_indices, save_full_nc)
                          THEN written \cup {"NC"} ELSE written
            /\ pc' = "AGGREGATE"
            /\ err' = err
       ELSE /\ written' = written
            /\ pc' = "ERROR"
            /\ err' = PartitionError
    /\ UNCHANGED <<inputs, ref_bundles, full_strl, VC_indices, found_vbs_info,
                   candidate_ic_strl_indices, candidate_ic_indices,
                   rejected_indices, endpoint_rois, ib_indices, grouper_calls,
                   ic_counts, nb_ib, scores>>

\* scoring.py:217-258: the fractions divide by total_strl_count.
Aggregate ==
    /\ pc = "AGGREGATE"
    /\ IF total_strl_count = 0
       THEN /\ pc' = "ERROR"
            /\ err' = DivisionError
            /\ scores' = scores
       ELSE /\ pc' = "DONE"
            /\ err' = err
            /\ scores' = <<Scorecard(total_strl_count,
                                     Cardinality(VC_indices),
                                     Len(candidate_ic_strl_indices),
                                     Len(rejected_indices),
                                     nb_ib, found_vbs_info)>>
    /\ UNCHANGED <<inputs, ref_bundles, full_strl, VC_indices, found_vbs_info,
                   candidate_ic_strl_indices, candidate_ic_indices,
                   rejected_indices, endpoint_rois, ib_indices, grouper_calls,
                   ic_counts, nb_ib, written>>

Next ==
    \/ LoadGT
    \/ LoadSubmission
    \/ ExtractVC
    \/ FilterLengthStep
    \/ GroupIC
    \/ ValidatePartition
    \/ Aggregate

Spec == Init /\ [][Next]_vars

SpecScenario == InitScenario /\ [][Next]_vars

\* ------------------------------------------------------- derived notions
Returned == pc = "DONE" /\ Len(scores) = 1

AllIndices == 0..(total_strl_count - 1)

\* The three classes as index sets, read off the orchestrator's lists.
NC_indices == Range(rejected_indices)
IC_effective == Range(candidate_ic_strl_indices) \ NC_indices

\* The consistency check has run and did not raise.
PassedPartitionCheck ==
    \/ pc \in {"AGGREGATE", "DONE"}
    \/ pc = "ERROR" /\ err = DivisionError

\* The length filter has run.
Filtered ==
    \/ pc \in {"GROUP_IC", "VALIDATE_PARTITION", "AGGREGATE", "DONE"}
    \/ pc = "ERROR" /\ err # MissingAttribs

\* The grouping stage has run.
Grouped ==
    \/ pc \in {"VALIDATE_PARTITION", "AGGREGATE", "DONE"}
    \/ pc = "ERROR" /\ err # MissingAttribs

ShortNonVC == {i \in AllIndices \ VC_indices : full_strl[i] < length_thres}
LongNonVC == {i \in AllIndices \ VC_indices : full_strl[i] >= length_thres}

RoiGroup(p) == {i \in DOMAIN endpoint_rois : endpoint_rois[i] = p}
Singletons == UNION {RoiGroup(p) : p \in {q \in RoiPairs : Cardinality(RoiGroup(q)) = 1}}
InvalidBundles == {p \in RoiPairs : Cardinality(RoiGroup(p)) >= 2}

\* ---------------------------------------------------------------- claims

\* C1: in every run that passes the partition check, the indices 0..N-1 are
\* split into VC, effective IC and NC: pairwise disjoint, exhaustive, no
\* index listed twice, and |VC| + (non-VC - rejected) + rejected = N, the
\* effective IC being exactly what the grouper placed in Invalid Bundles.
C1_Partition ==
    PassedPartitionCheck =>
        /\ VC_indices \cap IC_effective = {}
        /\ VC_indices \cap NC_indices = {}
        /\ IC_effective \cap NC_indices = {}
        /\ VC_indices \cup IC_effective \cup NC_indices = AllIndices
        /\ Cardinality(NC_indices) = Len(rejected_indices)
        /\ Cardinality(IC_effective) =
              Len(candidate_ic_strl_indices) - Len(rejected_indices)
        /\ Cardinality(VC_indices)
              + (Len(candidate_ic_strl_indices) - Len(rejected_indices))
              + Len(rejected_indices) = total_strl_count
        /\ IC_effective = ib_indices
        /\ ic_counts = Cardinality(IC_effective)

C1_Witness ==
    /\ Returned
    /\ VC_indices # {}
    /\ IC_effective # {}
    /\ ShortNonVC # {}
    /\ Singletons # {}

\* C2: every submission, N = 0 included, that is not stopped by one of the
\* two ValueErrors gets a scorecard whose VC, IC and NC are counts over
\* total_streamlines_count, each in [0,1], summing to 1.
C2_FractionsSumToOne ==
    (pc \in {"DONE", "ERROR"} /\ err.type # "ValueError") =>
        /\ Returned
        /\ LET sc == scores[1]
           IN  /\ sc.total_streamlines_count = total_strl_count
               /\ \A f \in {sc.VC, sc.IC, sc.NC} :
                     /\ f.den = sc.total_streamlines_count
                     /\ f.den > 0
                     /\ 0 <= f.num /\ f.num <= f.den
               /\ sc.VC.num + sc.IC.num + sc.NC.num = sc.total_streamlines_count

\* C3: the run ends with the partition ValueError, and without a scorecard,
\* exactly when ic_counts differs from (non-VC indices) - (all rejected
\* indices, length-rejected plus grouper-rejected); a scorecard is returned
\* only when the two are equal.
C3_PartitionCheck ==
    LET equal == ic_counts =
                    Len(candidate_ic_strl_indices) - Len(rejected_indices)
    IN  /\ (pc \in {"AGGREGATE", "DONE", "ERROR"} /\ ~equal) =>
              (pc = "ERROR" /\ err = PartitionError /\ scores = <<>>)
        /\ (pc = "ERROR" /\ err = PartitionError) => (~equal /\ scores = <<>>)
        /\ (pc \in {"AGGREGATE", "DONE"} \/ Len(scores) = 1) => equal
        /\ Grouped => ShortNonVC \subseteq NC_indices
        /\ Grouped => NC_indices \subseteq AllIndices \ VC_indices

C3_Witness ==
    /\ pc = "ERROR"
    /\ err = PartitionError
    /\ NC_indices # {}
    /\ \E i \in DOMAIN endpoint_rois :
          endpoint_rois[i] = NoROI /\ i \notin NC_indices

\* C4: a non-VC streamline shorter than 35.0 never reaches the grouper, is
\* never in an IB or the effective IC, and is in NC; a non-VC streamline of
\* length 35.0 or more is a grouper candidate; a VC streamline is never
\* length-filtered, whatever its length.
C4_LengthFilter ==
    /\ Filtered =>
          \A i \in AllIndices :
             /\ (i \notin VC_indices /\ full_strl[i] < 35) =>
                   /\ i \notin Range(candidate_ic_indices)
                   /\ i \notin DOMAIN endpoint_rois
                   /\ i \notin ib_indices
                   /\ i \in NC_indices
                   /\ i \notin IC_effective
             /\ (i \notin VC_indices /\ full_strl[i] >= 35) =>
                   i \in Range(candidate_ic_indices)
             /\ i \in VC_indices =>
                   /\ i \notin Range(candidate_ic_indices)
                   /\ i \notin NC_indices
                   /\ i \notin ib_indices
    /\ DOMAIN endpoint_rois \subseteq Range(candidate_ic_indices)
    /\ Returned =>
          /\ scores[1].NC.num = Cardinality(NC_indices)
          /\ scores[1].IC.num = Cardinality(IC_effective)
          /\ scores[1].VC.num = Cardinality(VC_indices)

C4_Witness ==
    /\ Returned
    /\ \E i \in VC_indices : full_strl[i] < 35
    /\ \E i \in NC_indices : full_strl[i] < 35
    /\ \E i \in Range(candidate_ic_indices) : full_strl[i] = 35

\* C5: a candidate alone in its endpoint-ROI-pair group is returned by the
\* grouper as rejected: it is in rejected_indices, not in an Invalid Bundle,
\* counted in NC and not in IC, and adds nothing to the IB count.
C5_SingletonRejected ==
    /\ Grouped =>
          /\ \A i \in Singletons :
                /\ i \in NC_indices
                /\ i \notin ib_indices
                /\ i \notin IC_effective
          /\ nb_ib = Cardinality(InvalidBundles)
    /\ Returned =>
          /\ scores[1].IB = Cardinality(InvalidBundles)
          /\ scores[1].NC.num = Cardinality(NC_indices)
          /\ scores[1].IC.num = Cardinality(IC_effective)

C5_Witness ==
    /\ Returned
    /\ Singletons # {}
    /\ scores[1].IB = 1
    /\ scores[1].NC.num = Cardinality(Singletons)

\* C6 (as stated): a bundle file without an attribs entry makes the loader
\* fail with a MissingAttributeError, before the submission is loaded and
\* before any streamline is classified, and no scorecard is returned.
C6_MissingAttributeError ==
    (basic_bundles_attribs # BundleNames /\ pc # "LOAD_GT") =>
        /\ pc = "ERROR"
        /\ err.type = "MissingAttributeError"
        /\ scores = <<>>

\* C6 (amended): a bundle file without an attribs entry makes the loader
\* raise ValueError("Missing basic bundle attribs ..."), before the
\* submission is loaded and before any streamline is classified (no VC
\* extraction, length filtering or grouping has run, nothing is written),
\* and no scorecard is returned.
C6_MissingAttribsFatal ==
    (basic_bundles_attribs # BundleNames /\ pc # "LOAD_GT") =>
        /\ pc = "ERROR"
        /\ err = MissingAttribs
        /\ ref_bundles = <<>>
        /\ full_strl = <<>>
        /\ VC_indices = {}
        /\ found_vbs_info = <<>>
        /\ candidate_ic_strl_indices = <<>>
        /\ candidate_ic_indices = <<>>
        /\ rejected_indices = <<>>
        /\ grouper_calls = 0
        /\ written = {}
        /\ scores = <<>>

C6_Witness ==
    /\ pc = "ERROR"
    /\ err = MissingAttribs
    /\ basic_bundles_attribs = {"CST_L"}
    /\ DOMAIN streamlines_file # {}

\* C7: in every returned scorecard each per-bundle metric mapping has only
\* ground-truth bundle names as keys and no bundle without streamlines, so
\* its keys are those of streamlines_per_bundle and each mean is taken over
\* the bundles with at least one streamline.
C7_MetricKeysOnlyFound ==
    Returned =>
        LET sc == scores[1]
            found == DOMAIN sc.streamlines_per_bundle
        IN  /\ \A m \in {sc.overlap_per_bundle, sc.overreach_per_bundle,
                         sc.overreach_norm_gt_per_bundle,
                         sc.f1_score_per_bundle} :
                  /\ DOMAIN m \subseteq BundleNames
                  /\ \A k \in DOMAIN m : found_vbs_info[k].nb_streamlines > 0
                  /\ DOMAIN m = found
            /\ \A mean \in {sc.mean_OL, sc.mean_OR, sc.mean_ORn, sc.mean_F1} :
                  mean.n = Cardinality(found)

\* The stage order of score_submission.
StageEdges ==
    {<<"LOAD_GT", "LOAD_SUBMISSION">>, <<"LOAD_GT", "ERROR">>,
     <<"LOAD_SUBMISSION", "EXTRACT_VC">>,
     <<"EXTRACT_VC", "FILTER_LENGTH">>,
     <<"FILTER_LENGTH", "GROUP_IC">>,
     <<"GROUP_IC", "VALIDATE_PARTITION">>,
     <<"VALIDATE_PARTITION", "AGGREGATE">>, <<"VALIDATE_PARTITION", "ERROR">>,
     <<"AGGREGATE", "DONE">>, <<"AGGREGATE", "ERROR">>}

StageStep == <<pc, pc'>> \in StageEdges

\* C8 (as stated): no subset file (VB/VC, IB/IC or NC) is written before
\* VALIDATE_PARTITION has passed and AGGREGATE has run, so a run that
\* aborts with the partition ValueError has written nothing.
C8_PersistAfterAggregate ==
    /\ written # {} => pc = "DONE"
    /\ (pc = "ERROR" /\ err = PartitionError) => written = {}

\* C8 (amended): the stages run in the fixed linear order LOAD_GT,
\* LOAD_SUBMISSION, EXTRACT_VC, FILTER_LENGTH, GROUP_IC, VALIDATE_PARTITION,
\* AGGREGATE, DONE, with no separate PERSIST stage: the VB / full-VC files
\* are written in EXTRACT_VC and the IB / full-IC files by the grouper in
\* GROUP_IC, before the partition check; only the NC file waits for the
\* check to pass (and is written before AGGREGATE), so a run that aborts with
\* the partition ValueError has written no NC file.
C8_StageOrderAndNCFile ==
    /\ [][StageStep]_vars
    /\ []("NC" \in written =>
             /\ PassedPartitionCheck
             /\ save_full_nc
             /\ Len(rejected_indices) > 0
             /\ ic_counts =
                   Len(candidate_ic_strl_indices) - Len(rejected_indices))
    /\ []((pc = "ERROR" /\ err = PartitionError) => "NC" \notin written)
    /\ [](PassedPartitionCheck =>
             ("NC" \in written <=> (save_full_nc /\ Len(rejected_indices) > 0)))
    /\ [](pc \notin {"LOAD_GT", "LOAD_SUBMISSION", "EXTRACT_VC"}
             /\ err # MissingAttribs =>
                /\ "VB" \in written <=> save_VBs
                /\ "VC" \in written <=> save_full_vc)
    /\ [](written \cap {"IB", "IC"} # {} => grouper_calls = 1)

C8_Witness ==
    /\ pc = "ERROR"
    /\ err = PartitionError
    /\ save_full_nc
    /\ Len(rejected_indices) > 0
    /\ "VB" \in written
    /\ "VC" \in written
    /\ "NC" \notin written

\* The scenario of C9: every VC streamline is assigned to the one bundle b,
\* every long non-VC streamline has an ROI pair, and exactly one ROI-pair
\* group has two or more members, the others being singletons.
ScenarioShape(b) ==
    /\ b \in DOMAIN found_vbs_info
    /\ found_vbs_info[b].streamlines_indices = VC_indices
    /\ DOMAIN endpoint_rois = LongNonVC
    /\ \A i \in LongNonVC : endpoint_rois[i] \in RoiPairs
    /\ Cardinality(InvalidBundles) = 1

ScenarioScores(b) ==
    LET sc == scores[1]
        N == total_strl_count
        v == Cardinality(VC_indices)
        s == Cardinality(ShortNonVC)
        g == Cardinality(UNION {RoiGroup(p) : p \in InvalidBundles})
        r == Cardinality(Singletons)
    IN  /\ v + s + g + r = N
        /\ sc.VC = Frac(v, N)
        /\ sc.IC = Frac(g, N)
        /\ sc.NC = Frac(s + r, N)
        /\ sc.VB = 1
        /\ sc.IB = 1
        /\ sc.streamlines_per_bundle = [k \in {b} |-> v]
        /\ sc.total_streamlines_count = N

\* C9 (as stated): for v streamlines assigned to a single bundle B, s short
\* non-VC ones, one ROI-pair group of g >= 2 and r singletons, the scorecard
\* is VC = v/N, IC = g/N, NC = (s+r)/N, VB = 1, IB = 1,
\* streamlines_per_bundle = {B: v}, total_streamlines_count = N.
C9_ScenarioAnyV ==
    Returned => \A b \in BundleNames : ScenarioShape(b) => ScenarioScores(b)

\* C9 (amended): the same with v >= 1.
C9_Scenario ==
    Returned =>
        \A b \in BundleNames :
            (ScenarioShape(b) /\ Cardinality(VC_indices) >= 1) => ScenarioScores(b)

C9_Witness ==
    /\ Returned
    /\ ScenarioShape("CST_L")
    /\ Cardinality(VC_indices) >= 1
    /\ Cardinality(ShortNonVC) >= 1
    /\ Cardinality(Singletons) >= 1
    /\ scores[1].IC.num >= 2
    /\ scores[1].total_streamlines_count = 5

\* C10: when no non-VC streamline passes the length filter, the grouper is
\* never called, ic_counts and nb_ib stay 0, the partition check does not
\* raise, and a returned scorecard has IC = 0, IB = 0 and NC = (number of
\* length-rejected streamlines) / N.
C10_NoCandidates ==
    (Grouped /\ Len(candidate_ic_indices) = 0) =>
        /\ grouper_calls = 0
        /\ endpoint_rois = <<>>
        /\ ic_counts = 0
        /\ nb_ib = 0
        /\ err # PartitionError
        /\ (pc = "VALIDATE_PARTITION" =>
               PartitionOK(ic_counts, Len(candidate_ic_strl_indices),
                           Len(rejected_indices)))
        /\ Returned =>
              /\ scores[1].IC = Frac(0, total_strl_count)
              /\ scores[1].IB = 0
              /\ scores[1].NC = Frac(Cardinality(ShortNonVC), total_strl_count)

C10_Witness ==
    /\ Returned
    /\ Len(candidate_ic_indices) = 0
    /\ VC_indices # {}
    /\ ShortNonVC # {}
    /\ scores[1].IC.num = 0

====
